---- MODULE Spec2Model ----
(***************************************************************************)
(* Generator hour meter (meter.ino): the drift-corrected integrator, the   *)
(* session/total bookkeeping and the EEPROM persistence, as a state        *)
(* machine.  The target is an Arduino Nano (AVR): int is 16 bits, long is  *)
(* 32 bits, byte is 8 bits.                                                *)
(*                                                                         *)
(* A 32-bit quantity that can exceed 2^31 - 1 (the micros()/millis()       *)
(* counters, elapsedMicros) is kept as a pair <<hi, lo>> of 16-bit limbs,  *)
(* value hi * 65536 + lo; a signed long is kept as an integer in           *)
(* -2^31 .. 2^31 - 1.  The second counters (totalSeconds,                  *)
(* prevSessionSeconds, correctedSessionSeconds) and accumulatedMicros are  *)
(* unsigned long in the program and plain naturals here: they stay below   *)
(* 2^28 in every run of the model, far from the 32-bit wrap.               *)
(*                                                                         *)
(* An action is one run of setup(), loop() or setTotalHours(), or a loss   *)
(* of power.  The variables marked "history" record what a run read or     *)
(* wrote, for the properties; the program does not hold them.              *)
(***************************************************************************)
EXTENDS Integers, Sequences, FiniteSets, TLC

----------------------------------------------------------------------------
(* 32-bit machine arithmetic *)

Limb == 65536

MaxLong == 2147483647

MinLong == -MaxLong - 1

\* An unsigned long given by a natural number below 2^31.
U32Of(n) == << n \div Limb, n % Limb >>

\* The unsigned long 0xFFFFFFFF.
U32Max == << Limb - 1, Limb - 1 >>

\* Unsigned addition, modulo 2^32.
Add32(a, b) ==
    LET lo == a[2] + b[2]
        hi == a[1] + b[1] + (lo \div Limb)
    IN  << hi % Limb, lo % Limb >>

\* Unsigned subtraction, modulo 2^32.
Sub32(a, b) ==
    LET lo == a[2] - b[2]
        borrow == IF lo < 0 THEN 1 ELSE 0
        hi == a[1] - b[1] - borrow
    IN  << hi % Limb, lo % Limb >>

\* Unsigned comparison a >= b.
Geq32(a, b) == a[1] > b[1] \/ (a[1] = b[1] /\ a[2] >= b[2])

\* Unsigned multiplication by a constant 0 <= c < 2^15, modulo 2^32.
Mul32(a, c) ==
    LET lo == a[2] * c
        hi == a[1] * c + (lo \div Limb)
    IN  << hi % Limb, lo % Limb >>

\* (long)u: the two's complement reading of an unsigned long.
ToLong(u) == IF u[1] < Limb \div 2 THEN u[1] * Limb + u[2]
             ELSE (u[1] - Limb) * Limb + u[2]

\* (unsigned long)x: the bit pattern of a signed long.
FromLong(x) == << (x \div Limb) % Limb, x % Limb >>

\* C's signed division, which truncates toward zero.
TruncDiv(x, d) == IF x >= 0 THEN x \div d
                  ELSE IF x = MinLong THEN -((MaxLong \div d) + (IF (MaxLong % d) + 1 = d THEN 1 ELSE 0))
                  ELSE -((-x) \div d)

\* Quotient and remainder of an unsigned long by a divisor 3 <= m <= 1000000,
\* as << quotient, remainder >> (both fit a signed long).
DivMod32(u, m) ==
    LET a == (u[1] \div 2) * Limb
        b == (u[1] % 2) * Limb + u[2]
        r == 2 * (a % m) + b
    IN  << 2 * (a \div m) + (r \div m), r % m >>

----------------------------------------------------------------------------
(* Program constants *)

EEPROM_HOURS_ADDR == 0

EEPROM_MINUTES_ADDR == 2

EEPROM_SECONDS_ADDR == 3

EEPROM_PREV_HOURS_ADDR == 4

EEPROM_PREV_MINUTES_ADDR == 6

EEPROM_PREV_SECONDS_ADDR == 7

ALTERNATE_INTERVAL == 3000

CRYSTAL_PPM_CORRECTION == 1111

SAVE_INTERVAL == 60000

UPDATE_INTERVAL == 1000

\* The erased EEPROM cell.
Blank == 255

EepromAddrs == 0 .. 7

BlankEeprom == [a \in EepromAddrs |-> Blank]

----------------------------------------------------------------------------
(* Bounds of the model *)

\* Loop iterations over the whole run.
MaxLoops == 3

\* Power-ups over the whole run.
MaxBoots == 2

\* Calls of setTotalHours over the whole run.
MaxSets == 1

\* Loop iterations of a run that follows the display timer through a stall.
MaxRefreshLoops == 12

\* The leading loop iterations of such a run that may stall.
MaxStalls == 2

\* Loop iterations of a run across the wraparound of the millisecond counter.
MaxWrapLoops == 4

----------------------------------------------------------------------------
(* EEPROM records: hours (16 bits, big-endian), minutes, seconds *)

\* EEPROM.update(addr, value): the cell takes the low byte of the value.
EepromUpdate(ee, addr, value) == [ee EXCEPT ![addr] = value % 256]

\* The sanitising decode shared by loadTotalTime and loadPrevSession:
\* hours 0xFFFF reads as 0, minutes and seconds of 0xFF or >= 60 read as 0.
LoadRecord(ee, hoursAddr, minutesAddr, secondsAddr) ==
    LET rawHours == ee[hoursAddr] * 256 + ee[hoursAddr + 1]
        rawMinutes == ee[minutesAddr]
        rawSeconds == ee[secondsAddr]
        hours == IF rawHours = 65535 THEN 0 ELSE rawHours
        minutes == IF rawMinutes = 255 \/ rawMinutes >= 60 THEN 0 ELSE rawMinutes
        seconds == IF rawSeconds = 255 \/ rawSeconds >= 60 THEN 0 ELSE rawSeconds
    IN  hours * 3600 + minutes * 60 + seconds

\* Mutant of loadTotalTime: the 0xFFFF test on the hours is missing.
loadTotalTimeNoBlankHours(ee) ==
    LET minutes == ee[EEPROM_MINUTES_ADDR]
        seconds == ee[EEPROM_SECONDS_ADDR]
    IN  (ee[EEPROM_HOURS_ADDR] * 256 + ee[EEPROM_HOURS_ADDR + 1]) * 3600
        + (IF minutes >= 60 THEN 0 ELSE minutes) * 60
        + (IF seconds >= 60 THEN 0 ELSE seconds)

\* loadTotalTime(): the value it assigns to totalSeconds.
loadTotalTime(ee) ==
    LoadRecord(ee, EEPROM_HOURS_ADDR, EEPROM_MINUTES_ADDR, EEPROM_SECONDS_ADDR)

\* Mutant of loadPrevSession: one bad field discards the whole record.
loadPrevSessionAllOrNothing(ee) ==
    LET rawHours == ee[EEPROM_PREV_HOURS_ADDR] * 256 + ee[EEPROM_PREV_HOURS_ADDR + 1]
        minutes == ee[EEPROM_PREV_MINUTES_ADDR]
        seconds == ee[EEPROM_PREV_SECONDS_ADDR]
    IN  IF rawHours = 65535 \/ minutes >= 60 \/ seconds >= 60
        THEN 0
        ELSE rawHours * 3600 + minutes * 60 + seconds

\* loadPrevSession(): the value it assigns to prevSessionSeconds.
loadPrevSession(ee) ==
    LoadRecord(ee, EEPROM_PREV_HOURS_ADDR, EEPROM_PREV_MINUTES_ADDR,
               EEPROM_PREV_SECONDS_ADDR)

\* The encode shared by the three save functions: hours is an unsigned int
\* (16 bits), minutes and seconds are bytes; four EEPROM.update calls.
SaveRecord(ee, secs, hoursAddr, minutesAddr, secondsAddr) ==
    LET hours == (secs \div 3600) % Limb
        minutes == ((secs % 3600) \div 60) % 256
        seconds == (secs % 60) % 256
        e1 == EepromUpdate(ee, hoursAddr, (hours \div 256) % 256)
        e2 == EepromUpdate(e1, hoursAddr + 1, hours % 256)
        e3 == EepromUpdate(e2, minutesAddr, minutes)
    IN  EepromUpdate(e3, secondsAddr, seconds)

\* Mutant of savePrevSession: the write-back of setup() is left out.
savePrevSessionSkipped(ee, prevSecs) == ee

\* savePrevSession(): writes the loaded previous-session value back.
savePrevSession(ee, prevSecs) ==
    SaveRecord(ee, prevSecs, EEPROM_PREV_HOURS_ADDR, EEPROM_PREV_MINUTES_ADDR,
               EEPROM_PREV_SECONDS_ADDR)

\* Mutant of saveCurrentSessionAsPrev: the minutes and seconds cells swapped.
saveCurrentSessionAsPrevSwapped(ee, sessionSecs) ==
    SaveRecord(ee, sessionSecs, EEPROM_PREV_HOURS_ADDR, EEPROM_PREV_SECONDS_ADDR,
               EEPROM_PREV_MINUTES_ADDR)

\* saveCurrentSessionAsPrev(): writes the current session's seconds to the
\* previous-session record.
saveCurrentSessionAsPrev(ee, sessionSecs) ==
    SaveRecord(ee, sessionSecs, EEPROM_PREV_HOURS_ADDR, EEPROM_PREV_MINUTES_ADDR,
               EEPROM_PREV_SECONDS_ADDR)

\* saveTotalTime(): writes totalSeconds + correctedSessionSeconds to the
\* total record.
saveTotalTime(ee, total, sessionSecs) ==
    SaveRecord(ee, total + sessionSecs, EEPROM_HOURS_ADDR, EEPROM_MINUTES_ADDR,
               EEPROM_SECONDS_ADDR)

\* The EEPROM.update calls of one record, in the order of the code, as
\* << address, value >> pairs.
RecordWrites(secs, hoursAddr, minutesAddr, secondsAddr) ==
    LET hours == (secs \div 3600) % Limb
    IN  << << hoursAddr, (hours \div 256) % 256 >>,
           << hoursAddr + 1, hours % 256 >>,
           << minutesAddr, ((secs % 3600) \div 60) % 256 >>,
           << secondsAddr, (secs % 60) % 256 >> >>

\* The eight EEPROM.update calls of a save: saveTotalTime(), then
\* saveCurrentSessionAsPrev().
SaveWrites(total, sessionSecs) ==
    RecordWrites(total + sessionSecs, EEPROM_HOURS_ADDR, EEPROM_MINUTES_ADDR,
                 EEPROM_SECONDS_ADDR)
    \o RecordWrites(sessionSecs, EEPROM_PREV_HOURS_ADDR, EEPROM_PREV_MINUTES_ADDR,
                    EEPROM_PREV_SECONDS_ADDR)

\* The cells after the first k of the calls ws.
RECURSIVE ApplyWrites(_, _, _)
ApplyWrites(ee, ws, k) ==
    IF k = 0 THEN ee
    ELSE EepromUpdate(ApplyWrites(ee, ws, k - 1), ws[k][1], ws[k][2])

\* The write-through of setTotalHours(newHours, newMinutes).
SetTotalWrite(ee, newHours, newMinutes) ==
    LET e1 == EepromUpdate(ee, EEPROM_HOURS_ADDR, (newHours \div 256) % 256)
        e2 == EepromUpdate(e1, EEPROM_HOURS_ADDR + 1, newHours % 256)
        e3 == EepromUpdate(e2, EEPROM_MINUTES_ADDR, newMinutes)
    IN  EepromUpdate(e3, EEPROM_SECONDS_ADDR, 0)

\* The fields of a stored record as they stand in the cells.
StoredHours(ee, hoursAddr) == ee[hoursAddr] * 256 + ee[hoursAddr + 1]

----------------------------------------------------------------------------
(* The drift-corrected integrator of loop() *)

\* Mutant of ElapsedMicros: the "+ 1" of the overflow branch is missing.
ElapsedMicrosOffByOne(currentMicros, last) ==
    IF Geq32(currentMicros, last)
    THEN Sub32(currentMicros, last)
    ELSE Add32(Sub32(U32Max, last), currentMicros)

\* The wraparound-safe delta of loop(): lines 105-110.
ElapsedMicros(currentMicros, last) ==
    IF Geq32(currentMicros, last)
    THEN Sub32(currentMicros, last)
    ELSE Add32(Add32(Sub32(U32Max, last), currentMicros), U32Of(1))

\* Mutant of ReachesGranularity: the granularity is 100 microseconds.
ReachesGranularityFiner(elapsed) == Geq32(elapsed, U32Of(100))

\* if (elapsedMicros >= 1000): whether loop() processes the delta.
ReachesGranularity(elapsed) == Geq32(elapsed, U32Of(1000))

\* What a signed overflow leaves in a long.  The overflow is undefined
\* behaviour: the build either wraps (two's complement, what avr-gcc's
\* multiply and add produce) or pins the result at the end of the range.
UBOutcomes == {"wrap", "saturate"}

UBResult(ub, wrapped, positive) ==
    IF ub = "wrap" THEN wrapped
    ELSE IF positive THEN MaxLong ELSE MinLong

\* Whether (long)elapsedMicros * CRYSTAL_PPM_CORRECTION, or adding it to the
\* accumulator, leaves the range of a long.
CorrectionOverflows(acc, el) ==
    LET lim == MaxLong \div CRYSTAL_PPM_CORRECTION
    IN  \/ el > lim
        \/ el < -lim
        \/ LET prod == el * CRYSTAL_PPM_CORRECTION
           IN  \/ (prod > 0 /\ acc > MaxLong - prod)
               \/ (prod < 0 /\ acc < MinLong - prod)

\* correctionAccumulator += (long)elapsedMicros * CRYSTAL_PPM_CORRECTION
AccumulateCorrection(acc, elapsed, ub) ==
    LET el == ToLong(elapsed)
        wrapped == ToLong(Add32(FromLong(acc), Mul32(elapsed, CRYSTAL_PPM_CORRECTION)))
    IN  IF CorrectionOverflows(acc, el)
        THEN UBResult(ub, wrapped, el > 0)
        ELSE acc + el * CRYSTAL_PPM_CORRECTION

\* long correctedElapsed = (long)elapsedMicros - correctionMicros
CorrectedElapsed(elapsed, correctionMicros, ub) ==
    LET el == ToLong(elapsed)
        wrapped == ToLong(Sub32(elapsed, FromLong(correctionMicros)))
    IN  IF (correctionMicros > 0 /\ el < MinLong + correctionMicros)
           \/ (correctionMicros < 0 /\ el > MaxLong + correctionMicros)
        THEN UBResult(ub, wrapped, el > 0)
        ELSE el - correctionMicros

\* Mutant of CarrySeconds: the seconds found are assigned to
\* correctedSessionSeconds instead of added to it.
RECURSIVE CountSeconds(_, _)
CountSeconds(micros32, n) ==
    IF Geq32(micros32, U32Of(1000000))
    THEN CountSeconds(Sub32(micros32, U32Of(1000000)), n + 1)
    ELSE << micros32, n >>

CarrySecondsAssigned(micros32, secs) == CountSeconds(micros32, 0)

\* Mutant of CarrySeconds: an "if" in place of the "while", one second at
\* most is carried per call.
CarrySecondsOnce(micros32, secs) ==
    IF Geq32(micros32, U32Of(1000000))
    THEN << Sub32(micros32, U32Of(1000000)), secs + 1 >>
    ELSE << micros32, secs >>

\* while (accumulatedMicros >= 1000000UL) { accumulatedMicros -= 1000000UL;
\* correctedSessionSeconds++; } as << accumulatedMicros, correctedSessionSeconds >>.
RECURSIVE CarrySeconds(_, _)
CarrySeconds(micros32, secs) ==
    IF Geq32(micros32, U32Of(1000000))
    THEN CarrySeconds(Sub32(micros32, U32Of(1000000)), secs + 1)
    ELSE << micros32, secs >>

\* Mutant of CorrectionStep: the whole microseconds are extracted but never
\* taken off the accumulator.
CorrectionStepKeepsWhole(acc, elapsed, ub) ==
    LET sum == AccumulateCorrection(acc, elapsed, ub)
    IN  [acc |-> sum, correctionMicros |-> TruncDiv(sum, 1000000)]

\* The correction of one delta: the accumulator takes the delta's
\* contribution, the whole microseconds (correctionAccumulator / 1000000L,
\* truncated towards zero) are extracted and taken off it.
CorrectionStep(acc, elapsed, ub) ==
    LET sum == AccumulateCorrection(acc, elapsed, ub)
        correctionMicros == TruncDiv(sum, 1000000)
    IN  [acc |-> sum - correctionMicros * 1000000,
         correctionMicros |-> correctionMicros]

\* The body of "if (elapsedMicros >= 1000)" after lastMicros is set: the new
\* correctionAccumulator, accumulatedMicros and correctedSessionSeconds.
Integrate(acc, accMicros, secs, elapsed, ub) ==
    LET step == CorrectionStep(acc, elapsed, ub)
        correctionMicros == step.correctionMicros
        rest == step.acc
        correctedElapsed == CorrectedElapsed(elapsed, correctionMicros, ub)
        added == IF correctedElapsed > 0
                 THEN Add32(U32Of(accMicros), U32Of(correctedElapsed))
                 ELSE U32Of(accMicros)
        carried == CarrySeconds(added, secs)
    IN  [acc |-> rest,
         accMicros |-> carried[1][1] * Limb + carried[1][2],
         secs |-> carried[2],
         correctedElapsed |-> correctedElapsed]

----------------------------------------------------------------------------
(* The three millisecond timers of loop() *)

\* Mutant of AlternateDue: the top row alternates with the display's period.
AlternateDueEverySecond(currentMillis, last) ==
    Geq32(Sub32(currentMillis, last), U32Of(UPDATE_INTERVAL))

\* currentMillis - lastAlternateMillis >= ALTERNATE_INTERVAL
AlternateDue(currentMillis, last) ==
    Geq32(Sub32(currentMillis, last), U32Of(ALTERNATE_INTERVAL))

\* currentMillis - lastUpdateMillis >= UPDATE_INTERVAL
UpdateDue(currentMillis, last) ==
    Geq32(Sub32(currentMillis, last), U32Of(UPDATE_INTERVAL))

\* Mutant of UpdateReference: a due refresh always moves one period on.
UpdateReferenceNoSnap(currentMillis, last) == Add32(last, U32Of(UPDATE_INTERVAL))

\* The new lastUpdateMillis of a due refresh: one period on, or the current
\* instant when that is still more than ten periods behind.
UpdateReference(currentMillis, last) ==
    LET stepped == Add32(last, U32Of(UPDATE_INTERVAL))
    IN  IF ~Geq32(U32Of(UPDATE_INTERVAL * 10), Sub32(currentMillis, stepped))
        THEN currentMillis
        ELSE stepped

\* Mutant of SaveDue: the save is timed with the display's period.
SaveDueEverySecond(currentMillis, last) ==
    Geq32(Sub32(currentMillis, last), U32Of(UPDATE_INTERVAL))

\* Mutant of SaveDue: the due time is compared as an absolute reading.
SaveDueAbsolute(currentMillis, last) ==
    Geq32(currentMillis, Add32(last, U32Of(SAVE_INTERVAL)))

\* currentMillis - lastSaveMillis >= SAVE_INTERVAL
SaveDue(currentMillis, last) ==
    Geq32(Sub32(currentMillis, last), U32Of(SAVE_INTERVAL))

----------------------------------------------------------------------------
(* The display *)

\* updateDisplay(): what it prints, as the first row's label and its hours
\* and minutes, and the second row's hours, minutes and seconds.  The hour
\* and minute values are unsigned int (16 bits).
updateDisplay(total, prev, sessionSecs, showTot) ==
    LET sessionMinutes == sessionSecs \div 60
        currentTotalMinutes == (total + sessionSecs) \div 60
    IN  [label |-> IF showTot THEN "Total" ELSE "Prev",
         topHours |-> IF showTot THEN (currentTotalMinutes \div 60) % Limb
                      ELSE (prev \div 3600) % Limb,
         topMins |-> IF showTot THEN currentTotalMinutes % 60
                     ELSE (prev % 3600) \div 60,
         sessionHours |-> (sessionMinutes \div 60) % Limb,
         sessionMins |-> sessionMinutes % 60,
         sessionSecs |-> sessionSecs % 60]

\* Mutant of LoopRedraw: the display is drawn before the time is advanced.
LoopRedrawBeforeAdvance(total, prev, secsAtEntry, secsAdvanced, showTot) ==
    updateDisplay(total, prev, secsAtEntry, showTot)

\* Mutant of LoopRedraw: the previous-session row shows the running session.
LoopRedrawSessionAsPrev(total, prev, secsAtEntry, secsAdvanced, showTot) ==
    updateDisplay(total, secsAdvanced, secsAdvanced, showTot)

\* The updateDisplay() calls of loop(): they come after the time-advance
\* block, so they read the session counter it leaves (secsAdvanced), not the
\* one the iteration started with (secsAtEntry).
LoopRedraw(total, prev, secsAtEntry, secsAdvanced, showTot) ==
    updateDisplay(total, prev, secsAdvanced, showTot)

\* The display before the first updateDisplay() of a power-up.
LcdClear == [label |-> "", topHours |-> 0, topMins |-> 0,
             sessionHours |-> 0, sessionMins |-> 0, sessionSecs |-> 0]

----------------------------------------------------------------------------
(* State *)

VARIABLES
    power,                  \* "off" | "on"
    eeprom,                 \* the eight EEPROM cells
    micros,                 \* the hardware microsecond counter, 32 bits
    millis,                 \* the hardware millisecond counter, 32 bits
    subMs,                  \* microseconds since millis last advanced
    totalSeconds,
    sessionStartMillis,
    lastSaveMillis,
    lastUpdateMillis,
    prevSessionSeconds,
    showTotal,
    lastAlternateMillis,
    lastMicros,
    accumulatedMicros,
    correctedSessionSeconds,
    correctionAccumulator,
    lcd,                    \* what the display shows
    op,                     \* the operation that ran last
    elapsedMicros,          \* loop()'s local, as of its last run
    correctedElapsed,       \* loop()'s local, as of its last run (0 if not computed)
    saved,                  \* whether the last loop() ran the EEPROM save
    redraws,                \* updateDisplay() calls of the last loop()
    trueElapsed,            \* history: ticks between the lastMicros reading and the last loop()'s reading
    rawSecs,                \* history: raw ticks processed this session, whole seconds
    rawMicros,              \* history: raw ticks processed this session, rest
    sinceSaveMs,            \* history: milliseconds since the last save or boot
    saveGapMs,              \* history: milliseconds between the last save and the one before (or boot)
    bootImage,              \* history: the EEPROM cells as setup() found them
    lastCommitTotal,        \* history: the total last written to the EEPROM (-1: none)
    lastCommitSession,      \* history: the session seconds last written by a save (-1: none)
    sessCommits,            \* history: saves of this session
    prevCommits,            \* history: saves of the session before this one
    setArgs,                \* history: the arguments of the last setTotalHours (<< >>: none)
    lostTotal,              \* history: totalSeconds + correctedSessionSeconds when the power was last lost (-1: never)
    nLoops, nBoots, nSets   \* run counters that bound the model

ram == << totalSeconds, sessionStartMillis, lastSaveMillis, lastUpdateMillis,
          prevSessionSeconds, showTotal, lastAlternateMillis, lastMicros,
          accumulatedMicros, correctedSessionSeconds, correctionAccumulator >>

clock == << micros, millis, subMs >>

locals == << elapsedMicros, correctedElapsed, saved, redraws >>

history == << trueElapsed, rawSecs, rawMicros, sinceSaveMs, saveGapMs, bootImage,
              lastCommitTotal, lastCommitSession, sessCommits, prevCommits, setArgs,
              lostTotal >>

counters == << nLoops, nBoots, nSets >>

vars == << power, eeprom, clock, ram, lcd, op, locals, history, counters >>

Zero32 == U32Of(0)

\* The values the C initialisers give the globals at reset.
RamAtReset ==
    /\ totalSeconds' = 0
    /\ sessionStartMillis' = Zero32
    /\ lastSaveMillis' = Zero32
    /\ lastUpdateMillis' = Zero32
    /\ prevSessionSeconds' = 0
    /\ showTotal' = TRUE
    /\ lastAlternateMillis' = Zero32
    /\ lastMicros' = Zero32
    /\ accumulatedMicros' = 0
    /\ correctedSessionSeconds' = 0
    /\ correctionAccumulator' = 0

\* The device before a power-up, whatever its EEPROM holds.
InitOff ==
    /\ power = "off"
    /\ micros = Zero32 /\ millis = Zero32 /\ subMs = 0
    /\ totalSeconds = 0
    /\ sessionStartMillis = Zero32
    /\ lastSaveMillis = Zero32
    /\ lastUpdateMillis = Zero32
    /\ prevSessionSeconds = 0
    /\ showTotal = TRUE
    /\ lastAlternateMillis = Zero32
    /\ lastMicros = Zero32
    /\ accumulatedMicros = 0
    /\ correctedSessionSeconds = 0
    /\ correctionAccumulator = 0
    /\ lcd = LcdClear
    /\ op = "none"
    /\ elapsedMicros = Zero32 /\ correctedElapsed = 0 /\ saved = FALSE /\ redraws = 0
    /\ trueElapsed = Zero32 /\ rawSecs = 0 /\ rawMicros = 0
    /\ sinceSaveMs = 0 /\ saveGapMs = 0
    /\ lastCommitTotal = -1 /\ lastCommitSession = -1
    /\ sessCommits = 0 /\ prevCommits = 0
    /\ setArgs = << >>
    /\ lostTotal = -1
    /\ nLoops = 0 /\ nBoots = 0 /\ nSets = 0

\* The device before its first power-up: a factory-blank EEPROM.
Init ==
    /\ eeprom = BlankEeprom
    /\ bootImage = BlankEeprom
    /\ InitOff

----------------------------------------------------------------------------
(* Inputs *)

\* Microseconds between two clock readings of the program: sub-millisecond
\* iterations (600), a second (1 000 300), stalls past the save period
\* (62 600 000) and past 2^31 microseconds (3 000 000 000).
Deltas == { U32Of(600), U32Of(1000300), U32Of(62600000), << 45776, 24064 >> }

\* Arguments of setTotalHours(newHours, newMinutes).
SetTotalArgs == { << 38, 52 >>, << 65534, 59 >>, << 65535, 0 >> }

\* EEPROM contents a first power-up may find: each record with blank, valid
\* and out-of-range fields.
TotalImages ==
    { << hi, lo, m, sec >> : hi \in {0, 1, 255}, lo \in {44, 255},
                             m \in {59, 60, 61, 255}, sec \in {5, 60, 255} }

PrevImages == { << 255, 255, 255, 255 >>, << 0, 0, 61, 5 >>, << 0, 1, 2, 60 >>,
                << 1, 44, 59, 59 >> }

StoredImages ==
    { [a \in EepromAddrs |-> IF a < 4 THEN t[a + 1] ELSE p[a - 3]] :
          t \in TotalImages, p \in PrevImages }

----------------------------------------------------------------------------
(* Operations *)

\* Ticks the clock ran since the reading held in lastMicros, up to the
\* program's last reading.
Pending ==
    IF op = "loop" /\ ~Geq32(elapsedMicros, U32Of(1000)) THEN trueElapsed ELSE Zero32

\* Power-up: the reset and setup().  The hardware counters restart at the
\* reset; the time setup() itself takes is not modelled, so each of its
\* millis() and micros() calls reads 0.
Setup ==
    /\ power = "off"
    /\ nBoots < MaxBoots
    /\ power' = "on"
    /\ micros' = Zero32 /\ millis' = Zero32 /\ subMs' = 0
    /\ totalSeconds' = loadTotalTime(eeprom)
    /\ prevSessionSeconds' = loadPrevSession(eeprom)
    /\ eeprom' = savePrevSession(eeprom, prevSessionSeconds')
    /\ sessionStartMillis' = millis'
    /\ lastSaveMillis' = millis'
    /\ lastUpdateMillis' = millis'
    /\ lastAlternateMillis' = millis'
    /\ lastMicros' = micros'
    /\ showTotal' = TRUE
    /\ accumulatedMicros' = 0
    /\ correctedSessionSeconds' = 0
    /\ correctionAccumulator' = 0
    /\ lcd' = updateDisplay(totalSeconds', prevSessionSeconds', 0, TRUE)
    /\ op' = "setup"
    /\ elapsedMicros' = Zero32 /\ correctedElapsed' = 0 /\ saved' = FALSE /\ redraws' = 1
    /\ trueElapsed' = Zero32 /\ rawSecs' = 0 /\ rawMicros' = 0
    /\ sinceSaveMs' = 0 /\ saveGapMs' = 0
    /\ bootImage' = eeprom
    /\ prevCommits' = sessCommits
    /\ sessCommits' = 0
    /\ nBoots' = nBoots + 1
    /\ UNCHANGED << lastCommitTotal, lastCommitSession, setArgs, lostTotal, nLoops, nSets >>

\* One iteration of loop(), d microseconds after the program's last clock
\* reading; ub resolves a signed overflow, should one happen.
Loop(d, ub) ==
    /\ power = "on"
    /\ \E adv \in { DivMod32(Add32(d, U32Of(subMs)), 1000) },
          currentMicros \in { Add32(micros, d) } :
       \E currentMillis \in { Add32(millis, U32Of(adv[1])) },
          elapsed \in { ElapsedMicros(currentMicros, lastMicros) } :
       \E process \in { ReachesGranularity(elapsed) } :
       \E int \in { IF process
                    THEN Integrate(correctionAccumulator, accumulatedMicros,
                                   correctedSessionSeconds, elapsed, ub)
                    ELSE [acc |-> correctionAccumulator,
                          accMicros |-> accumulatedMicros,
                          secs |-> correctedSessionSeconds,
                          correctedElapsed |-> 0] },
          alternate \in { AlternateDue(currentMillis, lastAlternateMillis) },
          update \in { UpdateDue(currentMillis, lastUpdateMillis) },
          save \in { SaveDue(currentMillis, lastSaveMillis) },
          raw \in { DivMod32(elapsed, 1000000) } :
           /\ micros' = currentMicros
           /\ millis' = currentMillis
           /\ subMs' = adv[2]
           /\ elapsedMicros' = elapsed
           /\ lastMicros' = IF process THEN currentMicros ELSE lastMicros
           /\ correctionAccumulator' = int.acc
           /\ accumulatedMicros' = int.accMicros
           /\ correctedSessionSeconds' = int.secs
           /\ correctedElapsed' = int.correctedElapsed
           /\ lastAlternateMillis' = IF alternate THEN currentMillis ELSE lastAlternateMillis
           /\ showTotal' = IF alternate THEN ~showTotal ELSE showTotal
           /\ lastUpdateMillis' = IF update
                                  THEN UpdateReference(currentMillis, lastUpdateMillis)
                                  ELSE lastUpdateMillis
           /\ redraws' = (IF alternate THEN 1 ELSE 0) + (IF update THEN 1 ELSE 0)
           /\ lcd' = IF alternate \/ update
                     THEN LoopRedraw(totalSeconds, prevSessionSeconds,
                                     correctedSessionSeconds, int.secs, showTotal')
                     ELSE lcd
           /\ lastSaveMillis' = IF save THEN currentMillis ELSE lastSaveMillis
           /\ eeprom' = IF save
                        THEN saveCurrentSessionAsPrev(
                                 saveTotalTime(eeprom, totalSeconds, int.secs), int.secs)
                        ELSE eeprom
           /\ saved' = save
           /\ trueElapsed' = Add32(Pending, d)
           /\ rawSecs' = IF process
                         THEN rawSecs + raw[1] + ((rawMicros + raw[2]) \div 1000000)
                         ELSE rawSecs
           /\ rawMicros' = IF process THEN (rawMicros + raw[2]) % 1000000 ELSE rawMicros
           /\ sinceSaveMs' = IF save THEN 0 ELSE sinceSaveMs + adv[1]
           /\ saveGapMs' = IF save THEN sinceSaveMs + adv[1] ELSE saveGapMs
           /\ lastCommitTotal' = IF save THEN totalSeconds + int.secs ELSE lastCommitTotal
           /\ lastCommitSession' = IF save THEN int.secs ELSE lastCommitSession
           /\ sessCommits' = IF save THEN sessCommits + 1 ELSE sessCommits
    /\ op' = "loop"
    /\ nLoops' = nLoops + 1
    /\ UNCHANGED << power, totalSeconds, prevSessionSeconds, sessionStartMillis,
                    bootImage, prevCommits, setArgs, lostTotal, nBoots, nSets >>

\* setTotalHours(newHours, newMinutes), called while the program runs.
setTotalHours(newHours, newMinutes) ==
    /\ power = "on"
    /\ nSets < MaxSets
    /\ totalSeconds' = newHours * 3600 + newMinutes * 60
    /\ sessionStartMillis' = millis
    /\ lastMicros' = micros
    /\ accumulatedMicros' = 0
    /\ correctedSessionSeconds' = 0
    /\ correctionAccumulator' = 0
    /\ eeprom' = SetTotalWrite(eeprom, newHours, newMinutes)
    /\ lcd' = updateDisplay(totalSeconds', prevSessionSeconds, 0, showTotal)
    /\ op' = "setTotal"
    /\ redraws' = 1
    /\ trueElapsed' = Zero32 /\ rawSecs' = 0 /\ rawMicros' = 0
    /\ lastCommitTotal' = totalSeconds'
    /\ setArgs' = << newHours, newMinutes >>
    /\ nSets' = nSets + 1
    /\ UNCHANGED << power, clock, lastSaveMillis, lastUpdateMillis, prevSessionSeconds,
                    showTotal, lastAlternateMillis, elapsedMicros, correctedElapsed,
                    saved, sinceSaveMs, saveGapMs, bootImage, lastCommitSession,
                    sessCommits, prevCommits, lostTotal, nLoops, nBoots >>

\* Power is lost: the RAM, the clock and the display are gone, the EEPROM
\* stays.  The globals take their initialisers at the next reset.
PowerLoss ==
    /\ power = "on"
    /\ power' = "off"
    /\ RamAtReset
    /\ micros' = Zero32 /\ millis' = Zero32 /\ subMs' = 0
    /\ lcd' = LcdClear
    /\ op' = "powerLoss"
    /\ elapsedMicros' = Zero32 /\ correctedElapsed' = 0 /\ saved' = FALSE /\ redraws' = 0
    /\ trueElapsed' = Zero32 /\ rawSecs' = 0 /\ rawMicros' = 0
    /\ sinceSaveMs' = 0 /\ saveGapMs' = 0
    /\ bootImage' = eeprom
    /\ lostTotal' = totalSeconds + correctedSessionSeconds
    /\ UNCHANGED << eeprom, lastCommitTotal, lastCommitSession, sessCommits,
                    prevCommits, setArgs, counters >>

\* Power is lost inside the save of a loop(): the iteration d microseconds
\* after the last clock reading advances the time, finds the save due and
\* has made k of its eight EEPROM.update calls, 1 to 7, when the power goes.
TornSave(d, ub) ==
    /\ power = "on"
    /\ \E adv \in { DivMod32(Add32(d, U32Of(subMs)), 1000) },
          elapsed \in { ElapsedMicros(Add32(micros, d), lastMicros) } :
       \E int \in { IF ReachesGranularity(elapsed)
                    THEN Integrate(correctionAccumulator, accumulatedMicros,
                                   correctedSessionSeconds, elapsed, ub)
                    ELSE [acc |-> correctionAccumulator,
                          accMicros |-> accumulatedMicros,
                          secs |-> correctedSessionSeconds,
                          correctedElapsed |-> 0] } :
           /\ SaveDue(Add32(millis, U32Of(adv[1])), lastSaveMillis)
           /\ \E k \in 1 .. 7 :
                 /\ eeprom' = ApplyWrites(eeprom, SaveWrites(totalSeconds, int.secs), k)
                 /\ lastCommitTotal' = IF k >= 4 THEN totalSeconds + int.secs
                                        ELSE lastCommitTotal
           /\ lostTotal' = totalSeconds + int.secs
    /\ power' = "off"
    /\ RamAtReset
    /\ micros' = Zero32 /\ millis' = Zero32 /\ subMs' = 0
    /\ lcd' = LcdClear
    /\ op' = "powerLoss"
    /\ elapsedMicros' = Zero32 /\ correctedElapsed' = 0 /\ saved' = FALSE /\ redraws' = 0
    /\ trueElapsed' = Zero32 /\ rawSecs' = 0 /\ rawMicros' = 0
    /\ sinceSaveMs' = 0 /\ saveGapMs' = 0
    /\ bootImage' = eeprom'
    /\ nLoops' = nLoops + 1
    /\ UNCHANGED << lastCommitSession, sessCommits, prevCommits, setArgs, nBoots, nSets >>

LoopStep == nLoops < MaxLoops /\ \E d \in Deltas, ub \in UBOutcomes : Loop(d, ub)

SetTotalStep == \E a \in SetTotalArgs : setTotalHours(a[1], a[2])

Next == Setup \/ LoopStep \/ SetTotalStep \/ PowerLoss

Spec == Init /\ [][Next]_vars

\* The storage specification: the first power-up finds cells another program
\* or a fault left behind, and the program then runs from save to save.
InitStorage ==
    /\ eeprom \in StoredImages
    /\ bootImage = eeprom
    /\ InitOff

SaveLoop == nLoops < MaxLoops /\ \E ub \in UBOutcomes : Loop(U32Of(62600000), ub)

NextStorage == Setup \/ SaveLoop \/ PowerLoss

SpecStorage == InitStorage /\ [][NextStorage]_vars

\* The power-cut specification: the storage specification with the power
\* also lost between two EEPROM.update calls of a save, after 1 to 7 of the 8.
TornSaveStep ==
    /\ nLoops < MaxLoops
    /\ \E ub \in UBOutcomes : TornSave(U32Of(62600000), ub)

NextTorn == Setup \/ SaveLoop \/ PowerLoss \/ TornSaveStep

SpecTorn == InitStorage /\ [][NextTorn]_vars

\* The display-timer specification: a device whose first loop iterations
\* stall (for 10.5 s, 11 s, 11.001 s or 12 s, around the ten periods the
\* refresh timer tolerates, or for 2.9995 s, just short of the alternation
\* period) and whose later iterations take 600 microseconds.
StallDeltas == { U32Of(2999500), U32Of(10500000), U32Of(11000000), U32Of(11001000),
                 U32Of(12000000) }

RefreshLoop ==
    /\ nLoops < MaxRefreshLoops
    /\ \E d \in (IF nLoops < MaxStalls THEN StallDeltas \cup { U32Of(600) }
                 ELSE { U32Of(600) }),
          ub \in UBOutcomes : Loop(d, ub)

NextRefresh == Setup \/ RefreshLoop

SpecRefresh == Init /\ [][NextRefresh]_vars

\* The wraparound specification: a device powered up on a blank EEPROM that
\* has run for 2^32 - 30000 ms (49.7 days) in iterations of 1000 microseconds,
\* 30 s before its millisecond counter wraps.  By then the microsecond
\* counter reads 1000 * (2^32 - 30000) mod 2^32 and wraps with it, and the
\* correction has left 4290165 s, 620665 microseconds in the buffer and
\* 856000 in the accumulator.  The last save was 20 s or 40 s ago (at
\* 4290145 s or 4290125 s of the session), the last refresh 400 or 900 ms
\* ago, the last alternation 1000 or 2900 ms ago.
WrapStartMillis == << 65535, 35536 >>

WrapStartMicros == << 65078, 15488 >>

SessionAtSave(msAgo) == IF msAgo = 20000 THEN 4290145 ELSE 4290125

InitWrap ==
    \E saveAgo \in {20000, 40000}, updateAgo \in {400, 900},
       alternateAgo \in {1000, 2900}, shown \in BOOLEAN :
        /\ power = "on"
        /\ millis = WrapStartMillis /\ micros = WrapStartMicros /\ subMs = 0
        /\ totalSeconds = 0
        /\ sessionStartMillis = Zero32
        /\ lastSaveMillis = Sub32(WrapStartMillis, U32Of(saveAgo))
        /\ lastUpdateMillis = Sub32(WrapStartMillis, U32Of(updateAgo))
        /\ prevSessionSeconds = 0
        /\ showTotal = shown
        /\ lastAlternateMillis = Sub32(WrapStartMillis, U32Of(alternateAgo))
        /\ lastMicros = WrapStartMicros
        /\ accumulatedMicros = 620665
        /\ correctedSessionSeconds = 4290165
        /\ correctionAccumulator = 856000
        /\ eeprom = saveCurrentSessionAsPrev(
                        saveTotalTime(BlankEeprom, 0, SessionAtSave(saveAgo)),
                        SessionAtSave(saveAgo))
        /\ lcd = updateDisplay(0, 0, 4290165, shown)
        /\ op = "loop"
        /\ elapsedMicros = U32Of(1000) /\ correctedElapsed = 999
        /\ saved = FALSE /\ redraws = 0
        /\ trueElapsed = U32Of(1000) /\ rawSecs = 4294937 /\ rawMicros = 296000
        /\ sinceSaveMs = saveAgo /\ saveGapMs = SAVE_INTERVAL
        /\ bootImage = BlankEeprom
        /\ lastCommitTotal = SessionAtSave(saveAgo)
        /\ lastCommitSession = SessionAtSave(saveAgo)
        /\ sessCommits = 71581 /\ prevCommits = 0
        /\ setArgs = << >>
        /\ lostTotal = -1
        /\ nLoops = 0 /\ nBoots = 1 /\ nSets = 0

\* Iterations of 600 microseconds, 10.2 s and 62.6 s.
WrapDeltas == { U32Of(600), U32Of(10200000), U32Of(62600000) }

WrapLoop ==
    /\ nLoops < MaxWrapLoops
    /\ \E d \in WrapDeltas, ub \in UBOutcomes : Loop(d, ub)

NextWrap == WrapLoop

SpecWrap == InitWrap /\ [][NextWrap]_vars

----------------------------------------------------------------------------
(* Properties *)

\* The in-memory lifetime total: totalSeconds + correctedSessionSeconds.
CurrentTotal == totalSeconds + correctedSessionSeconds

\* The last loop() read a microsecond counter that had wrapped since the
\* reading held in lastMicros.
Wrapped == op = "loop" /\ ~Geq32(micros, trueElapsed)

\* The last loop() reached the 1000 microsecond granularity.
Processed == op = "loop" /\ Geq32(elapsedMicros, U32Of(1000))

\* C1: every total and every session value whose hours are in 0..65535
\* (minutes and seconds in 0..59) survives saveTotalTime / saveCurrentSessionAsPrev
\* followed by loadTotalTime / loadPrevSession at the next power-up unchanged.
C1_RoundTrip ==
    power = "on" =>
        /\ CurrentTotal \div 3600 <= 65535 =>
               loadTotalTime(saveTotalTime(eeprom, totalSeconds, correctedSessionSeconds))
                   = CurrentTotal
        /\ correctedSessionSeconds \div 3600 <= 65535 =>
               loadPrevSession(saveCurrentSessionAsPrev(eeprom, correctedSessionSeconds))
                   = correctedSessionSeconds

\* C2: a save leaves the in-memory total what it wrote, and the total loaded
\* at a power-up is the total last written in the session before it, when
\* that session saved at least once.
C2_TotalCountedOnce ==
    /\ (op = "loop" /\ saved) => lastCommitTotal = CurrentTotal
    /\ (op = "setup" /\ prevCommits > 0) => totalSeconds = lastCommitTotal

\* C3: while the power stays on, loop() never lowers correctedSessionSeconds
\* or totalSeconds + correctedSessionSeconds; only loop() raises the session
\* counter, and only setTotalHours lowers it, to zero.
C3_SessionMonotone ==
    [][ (power = "on" /\ power' = "on") =>
          /\ op' = "loop" =>
                /\ correctedSessionSeconds' >= correctedSessionSeconds
                /\ totalSeconds' + correctedSessionSeconds' >= CurrentTotal
          /\ correctedSessionSeconds' > correctedSessionSeconds => op' = "loop"
          /\ correctedSessionSeconds' < correctedSessionSeconds =>
                op' = "setTotal" /\ correctedSessionSeconds' = 0 ]_vars

\* C3 witness: a loop() across a counter wraparound whose corrected delta
\* is negative leaves a running session counter where it was.
C3_Witness ==
    /\ Wrapped
    /\ Processed
    /\ correctedElapsed < 0
    /\ correctedSessionSeconds > 0

\* C4: the elapsed microseconds loop() computes are the ticks the counter
\* really ran since the reading held in lastMicros, wraparound or not,
\* deferred sub-millisecond readings included.
C4_ElapsedIsTrue == op = "loop" => elapsedMicros = trueElapsed

\* C4 witness: a wrapped reading whose marker lies two readings back.
C4_Witness ==
    /\ Wrapped
    /\ elapsedMicros = Add32(<< 45776, 24064 >>, U32Of(600))

\* C5: the corrected microseconds counted this session (whole seconds and
\* buffer) are within one tick of N * (1000000 - C) / 1000000, N being the raw
\* ticks processed.  With ds and diff below, corrected - N * (1000000 - C) / 1000000
\* is diff + rawMicros * C / 1000000; the two range tests keep the products
\* within 32 bits and cannot fail for a value within one tick (N < 10^10).
C5_CorrectionWithinOneTick ==
    power = "on" =>
        LET ds == correctedSessionSeconds - rawSecs
            diff == ds * 1000000 + (accumulatedMicros - rawMicros)
                    + rawSecs * CRYSTAL_PPM_CORRECTION
            scaled == diff * 1000000 + rawMicros * CRYSTAL_PPM_CORRECTION
        IN  /\ ds >= -20 /\ ds <= 20
            /\ diff >= -2000 /\ diff <= 2000
            /\ scaled >= -1000000 /\ scaled <= 1000000

\* C6: a power-up that finds all eight cells erased (0xFF) loads a total of
\* 0 and a previous session of 0.
C6_BlankLoadsZero ==
    (op = "setup" /\ \A a \in EepromAddrs : bootImage[a] = Blank) =>
        totalSeconds = 0 /\ prevSessionSeconds = 0

\* C6 witness: the first power-up of a factory-blank device.
C6_Witness ==
    /\ op = "setup"
    /\ bootImage = BlankEeprom
    /\ nBoots = 1
    /\ lcd.label = "Total"

\* What a stored field contributes to the loaded seconds count: its stored
\* value, or 0 when it is the blank hours (0xFFFF) or an out-of-range
\* minutes or seconds byte.
HoursRead(rawHours) == IF rawHours = 65535 THEN 0 ELSE rawHours

ByteRead(b) == IF b >= 60 THEN 0 ELSE b

\* C7: at a power-up each field of each record is sanitised on its own: an
\* out-of-range minutes or seconds byte reads as 0 and every other field of
\* the two records contributes what is stored.
C7_FieldsSanitisedAlone ==
    op = "setup" =>
        /\ totalSeconds =
               HoursRead(StoredHours(bootImage, EEPROM_HOURS_ADDR)) * 3600
               + ByteRead(bootImage[EEPROM_MINUTES_ADDR]) * 60
               + ByteRead(bootImage[EEPROM_SECONDS_ADDR])
        /\ prevSessionSeconds =
               HoursRead(StoredHours(bootImage, EEPROM_PREV_HOURS_ADDR)) * 3600
               + ByteRead(bootImage[EEPROM_PREV_MINUTES_ADDR]) * 60
               + ByteRead(bootImage[EEPROM_PREV_SECONDS_ADDR])

\* C7 witness: stored total 300 h / 61 min / 5 s loads as 300 h 0 min 5 s,
\* beside a stored previous session 1 h / 2 min / 60 s that loads as 1 h 2 min.
C7_Witness ==
    /\ op = "setup"
    /\ StoredHours(bootImage, EEPROM_HOURS_ADDR) = 300
    /\ bootImage[EEPROM_MINUTES_ADDR] = 61
    /\ bootImage[EEPROM_SECONDS_ADDR] = 5
    /\ totalSeconds = 300 * 3600 + 5
    /\ bootImage[EEPROM_PREV_SECONDS_ADDR] = 60
    /\ prevSessionSeconds = 3600 + 2 * 60

\* C8: after setTotalHours(hours, minutes), hours in 0..65535 and minutes in
\* 0..59, totalSeconds is hours * 3600 + minutes * 60, the session counter,
\* the microsecond buffer and the correction accumulator are 0, the total
\* record holds hours / minutes / 0, and a power-up from these cells (setup()
\* assigns loadTotalTime of them) loads the total just set.
C8_SetTotalWritesThrough ==
    op = "setTotal" =>
        /\ totalSeconds = setArgs[1] * 3600 + setArgs[2] * 60
        /\ correctedSessionSeconds = 0
        /\ accumulatedMicros = 0
        /\ correctionAccumulator = 0
        /\ StoredHours(eeprom, EEPROM_HOURS_ADDR) = setArgs[1]
        /\ eeprom[EEPROM_MINUTES_ADDR] = setArgs[2]
        /\ eeprom[EEPROM_SECONDS_ADDR] = 0
        /\ loadTotalTime(eeprom) = totalSeconds

\* C9: a loop() that saves leaves the previous-session record at the session's
\* hours / minutes / seconds, and a power-up after a session that saved loads
\* the session seconds of that session's last save as the previous session.
C9_SessionSavedAsPrev ==
    /\ (op = "loop" /\ saved) =>
          /\ StoredHours(eeprom, EEPROM_PREV_HOURS_ADDR) = correctedSessionSeconds \div 3600
          /\ eeprom[EEPROM_PREV_MINUTES_ADDR] = (correctedSessionSeconds % 3600) \div 60
          /\ eeprom[EEPROM_PREV_SECONDS_ADDR] = correctedSessionSeconds % 60
    /\ (op = "setup" /\ prevCommits > 0) => prevSessionSeconds = lastCommitSession

\* C9 witness: a session saved at 125 s (stored as 0 h 2 min 5 s) is the
\* previous session of the next power-up.
C9_Witness ==
    /\ op = "setup"
    /\ prevCommits > 0
    /\ bootImage[EEPROM_PREV_HOURS_ADDR] = 0
    /\ bootImage[EEPROM_PREV_HOURS_ADDR + 1] = 0
    /\ bootImage[EEPROM_PREV_MINUTES_ADDR] = 2
    /\ bootImage[EEPROM_PREV_SECONDS_ADDR] = 5
    /\ prevSessionSeconds = 125

\* C10: a loop() saves the total and the session exactly when at least
\* SAVE_INTERVAL milliseconds of the millisecond clock passed since the last
\* save (or the power-up), whatever the corrected session clock shows; a
\* loop() that does not save leaves the EEPROM alone; so two saves are never
\* less than SAVE_INTERVAL apart, and the first loop() past the period saves.
C10_SaveEveryMinute ==
    [][ op' = "loop" =>
          /\ saved' <=> (IF saved' THEN saveGapMs' ELSE sinceSaveMs') >= SAVE_INTERVAL
          /\ saved' => /\ saveGapMs' >= SAVE_INTERVAL
                       /\ eeprom' = saveCurrentSessionAsPrev(
                                        saveTotalTime(eeprom, totalSeconds',
                                                      correctedSessionSeconds'),
                                        correctedSessionSeconds')
          /\ ~saved' => eeprom' = eeprom /\ sinceSaveMs' < SAVE_INTERVAL ]_vars

\* C10 witness: the second save of a session whose corrected session clock
\* has not reached a minute.
C10_Witness ==
    /\ op = "loop"
    /\ saved
    /\ sessCommits = 2
    /\ saveGapMs >= SAVE_INTERVAL
    /\ correctedSessionSeconds < 60

\* The previous-session record as stored, decoded without sanitising.
StoredPrev(ee) ==
    StoredHours(ee, EEPROM_PREV_HOURS_ADDR) * 3600
    + ee[EEPROM_PREV_MINUTES_ADDR] * 60
    + ee[EEPROM_PREV_SECONDS_ADDR]

\* The four cells of the total record.
TotalAddrs == { EEPROM_HOURS_ADDR, EEPROM_HOURS_ADDR + 1, EEPROM_MINUTES_ADDR,
                EEPROM_SECONDS_ADDR }

RefreshLag == Sub32(millis, lastUpdateMillis)

\* C12: a loop() whose refresh is due moves lastUpdateMillis one period on
\* and, when the clock is then still more than ten periods past it, to the
\* current instant; so while the program runs the reference point is never
\* more than ten periods (10 * UPDATE_INTERVAL ms) behind the clock, and the
\* refreshes still owed for periods already passed are never more than ten.
\* A loop() whose refresh is not due leaves the reference point alone.
C12_RefreshCatchUpBounded ==
    [][ op' = "loop" =>
          LET due == Add32(lastUpdateMillis, U32Of(UPDATE_INTERVAL))
              overdue == Sub32(millis', due)
              tenPeriods == U32Of(10 * UPDATE_INTERVAL)
              lag == Sub32(millis', lastUpdateMillis')
          IN  /\ UpdateDue(millis', lastUpdateMillis) =>
                    /\ ~Geq32(tenPeriods, overdue) => lastUpdateMillis' = millis'
                    /\ Geq32(tenPeriods, overdue) => lastUpdateMillis' = due
                    /\ redraws' >= 1
              /\ ~UpdateDue(millis', lastUpdateMillis) =>
                    lastUpdateMillis' = lastUpdateMillis
              /\ Geq32(tenPeriods, lag)
              /\ lag[1] = 0 /\ lag[2] \div UPDATE_INTERVAL <= 10 ]_vars

\* C12 witness: an 11 s stall leaves the timer ten periods behind, and the
\* ten 600 microsecond iterations after it each refresh the display and move
\* the reference point one period on, to 11000 ms.
C12_Witness ==
    /\ op = "loop"
    /\ nLoops = 11
    /\ lastUpdateMillis = U32Of(11000)
    /\ millis = U32Of(11006)
    /\ redraws >= 1
    /\ ~Geq32(RefreshLag, U32Of(UPDATE_INTERVAL))

\* C13: a loop() that redraws the display (on the alternation, on the
\* periodic refresh, or both) shows the session counter and the total as its
\* own time-advance block left them, with the top row it has just selected.
C13_RedrawAfterAdvance ==
    [][ (op' = "loop" /\ redraws' >= 1) =>
           lcd' = updateDisplay(totalSeconds', prevSessionSeconds',
                                correctedSessionSeconds', showTotal') ]_vars

\* C13 witness: an iteration that carries the session counter from 0 to 62
\* seconds and redraws twice shows 0 h 1 min 2 s on the second row, under the
\* previous session the alternation has just selected.
C13_Witness ==
    /\ op = "loop"
    /\ nLoops = 1
    /\ redraws = 2
    /\ correctedSessionSeconds = 62
    /\ lcd.sessionMins = 1
    /\ lcd.sessionSecs = 2
    /\ lcd.label = "Prev"

\* C14: a loop() whose elapsed delta is below 1000 microseconds leaves
\* lastMicros, correctionAccumulator, accumulatedMicros and
\* correctedSessionSeconds as they were, and the ticks it read stay pending
\* on top of those already deferred; the loop() that reaches 1000
\* microseconds takes every deferred tick and its own into elapsedMicros and
\* moves lastMicros to its reading, so no tick is left out.
C14_SubGranularityDeferred ==
    [][ op' = "loop" =>
          LET ticks == Sub32(micros', micros)
          IN  /\ ~Processed' =>
                    /\ lastMicros' = lastMicros
                    /\ correctionAccumulator' = correctionAccumulator
                    /\ accumulatedMicros' = accumulatedMicros
                    /\ correctedSessionSeconds' = correctedSessionSeconds
                    /\ rawSecs' = rawSecs /\ rawMicros' = rawMicros
                    /\ Pending' = Add32(Pending, ticks)
              /\ Processed' =>
                    /\ elapsedMicros' = Add32(Pending, ticks)
                    /\ lastMicros' = micros'
                    /\ Pending' = Zero32 ]_vars

\* C14 witness: a 600 microsecond iteration of a session that has counted
\* time leaves the counters alone and its 600 ticks pending.
C14_Witness ==
    /\ op = "loop"
    /\ ~Processed
    /\ elapsedMicros = U32Of(600)
    /\ Pending = U32Of(600)
    /\ correctedSessionSeconds > 0
    /\ accumulatedMicros > 0
    /\ correctionAccumulator # 0
    /\ lastMicros # micros

\* C15: a loop() that processes its delta adds the corrected microseconds d
\* (correctedElapsed when positive, nothing otherwise) to the buffer b and
\* carries: correctedSessionSeconds grows by (b + d) div 1000000 and
\* accumulatedMicros is left at (b + d) mod 1000000; after every step of the
\* running program accumulatedMicros is below 1000000.  (b + d) is taken
\* apart into d's whole seconds and the rest to stay within 32 bits.
C15_SecondsCarry ==
    [][ /\ (op' = "loop" /\ Processed') =>
              LET d == IF correctedElapsed' > 0 THEN correctedElapsed' ELSE 0
                  rest == accumulatedMicros + (d % 1000000)
              IN  /\ correctedSessionSeconds' =
                         correctedSessionSeconds + (d \div 1000000) + (rest \div 1000000)
                  /\ accumulatedMicros' = rest % 1000000
        /\ accumulatedMicros' >= 0 /\ accumulatedMicros' < 1000000 ]_vars

\* C15 witness: 999189 corrected microseconds added to a buffer holding
\* 999189 carry one second and leave 998378.
C15_Witness ==
    /\ op = "loop"
    /\ Processed
    /\ correctedElapsed = 999189
    /\ correctedSessionSeconds = 1
    /\ accumulatedMicros = 998378

\* C16: the redraws and the alternation of a loop() touch neither the
\* accumulators nor the EEPROM: after the iteration totalSeconds and
\* prevSessionSeconds are as before, correctionAccumulator, accumulatedMicros
\* and correctedSessionSeconds are what the time-advance block alone makes of
\* them (their old values when the delta is below the granularity), and the
\* EEPROM is what the save alone makes of it (the old cells when no save is
\* due).  An alternation that is due (3000 ms since its reference) flips
\* showTotal, moves lastAlternateMillis to the current reading and redraws
\* the display with the row it selected; one that is not due leaves both.
C16_DisplayReadsOnly ==
    [][ op' = "loop" =>
          LET due == Geq32(Sub32(millis', lastAlternateMillis), U32Of(ALTERNATE_INTERVAL))
          IN  /\ totalSeconds' = totalSeconds
              /\ prevSessionSeconds' = prevSessionSeconds
              /\ ~Processed' =>
                    /\ correctionAccumulator' = correctionAccumulator
                    /\ accumulatedMicros' = accumulatedMicros
                    /\ correctedSessionSeconds' = correctedSessionSeconds
              /\ Processed' =>
                    \E ub \in UBOutcomes :
                        LET int == Integrate(correctionAccumulator, accumulatedMicros,
                                             correctedSessionSeconds, elapsedMicros', ub)
                        IN  /\ correctionAccumulator' = int.acc
                            /\ accumulatedMicros' = int.accMicros
                            /\ correctedSessionSeconds' = int.secs
              /\ eeprom' = IF saved'
                           THEN saveCurrentSessionAsPrev(
                                    saveTotalTime(eeprom, totalSeconds,
                                                  correctedSessionSeconds'),
                                    correctedSessionSeconds')
                           ELSE eeprom
              /\ due => /\ showTotal' = ~showTotal
                        /\ lastAlternateMillis' = millis'
                        /\ redraws' >= 1
                        /\ lcd'.label = IF showTotal' THEN "Total" ELSE "Prev"
              /\ ~due => /\ showTotal' = showTotal
                         /\ lastAlternateMillis' = lastAlternateMillis ]_vars

\* C16 witness: a 600 microsecond iteration, below the granularity and with
\* no save due, that alternates the top row to the previous session and
\* redraws twice in a session that has counted time.
C16_Witness ==
    /\ op = "loop"
    /\ ~Processed
    /\ ~saved
    /\ redraws = 2
    /\ ~showTotal
    /\ lcd.label = "Prev"
    /\ lastAlternateMillis = millis
    /\ millis = U32Of(ALTERNATE_INTERVAL)
    /\ correctedSessionSeconds > 0
    /\ accumulatedMicros > 0
    /\ correctionAccumulator # 0

\* C17: the total a power-up loads after a power loss is at most the
\* in-memory total (totalSeconds + correctedSessionSeconds) at the moment
\* the power went, and at least the total of the last save whose total
\* record was written in full, the power being lost between two loop()
\* iterations or between two EEPROM.update calls of a save.
C17_PowerLossKeepsTotal ==
    (op = "setup" /\ lostTotal >= 0) =>
        /\ totalSeconds <= lostTotal
        /\ lastCommitTotal >= 0 => totalSeconds >= lastCommitTotal

\* Elapsed deltas across the range of the wraparound-safe subtraction: the
\* granularity, the last delta whose correction fits a long (1 932 928) and
\* the first that does not, 2^31 - 1, 2^31, 2^32 - 1 and values between.
ElapsedSamples ==
    { U32Of(1000), U32Of(999999), U32Of(1932928), U32Of(1932929), U32Of(62600000),
      U32Of(400000000), U32Of(MaxLong), << 32768, 0 >>, << 45776, 24064 >>,
      << 65535, 65535 >> }

\* C18: while the program runs correctionAccumulator is strictly between
\* -1000000 and 1000000, and the correction of the next delta leaves it
\* there, whatever the delta (up to 2^32 - 1 microseconds) and whatever a
\* signed overflow of the multiplication or the addition leaves in the long.
C18_AccumulatorIsRemainder ==
    power = "on" =>
        /\ correctionAccumulator > -1000000
        /\ correctionAccumulator < 1000000
        /\ \A e \in ElapsedSamples, ub \in UBOutcomes :
               LET next == CorrectionStep(correctionAccumulator, e, ub).acc
               IN  next > -1000000 /\ next < 1000000

\* C18 witness: a delta of 3 000 000 000 microseconds, negative as a long,
\* whose product with the correction overflows, leaves a negative remainder.
C18_Witness ==
    /\ Processed
    /\ elapsedMicros = << 45776, 24064 >>
    /\ correctionAccumulator < 0
    /\ correctionAccumulator > -1000000

\* C19: while the power stays on no step changes prevSessionSeconds: not a
\* loop() (time-advance, redraw, save) and not setTotalHours; it stays the
\* value setup() loaded.  A save writes the running session to the stored
\* previous-session record only, and a display whose top row is the
\* previous session shows the hours and minutes of prevSessionSeconds.
C19_PrevSessionFixed ==
    [][ (power = "on" /\ power' = "on") =>
          /\ prevSessionSeconds' = prevSessionSeconds
          /\ prevSessionSeconds' = loadPrevSession(bootImage')
          /\ (op' = "loop" /\ saved') =>
                eeprom' = saveCurrentSessionAsPrev(
                              saveTotalTime(eeprom, totalSeconds, correctedSessionSeconds'),
                              correctedSessionSeconds')
          /\ lcd'.label = "Prev" =>
                /\ lcd'.topHours = (prevSessionSeconds \div 3600) % Limb
                /\ lcd'.topMins = (prevSessionSeconds % 3600) \div 60 ]_vars

\* C19 witness: a session that follows one saved at 125 s has itself saved
\* 62 s to the stored record and still shows 0 h 2 min as the previous session.
C19_Witness ==
    /\ op = "loop"
    /\ saved
    /\ prevSessionSeconds = 125
    /\ correctedSessionSeconds = 62
    /\ StoredPrev(eeprom) = 62
    /\ lcd.label = "Prev"
    /\ lcd.topHours = 0
    /\ lcd.topMins = 2

\* A reading of the millisecond counter as milliseconds from the instant it
\* wraps: negative before the wraparound, positive after it.  Differences of
\* such readings are true elapsed times as long as the readings lie within
\* 2^31 ms of the wraparound.
SinceWrap(t) == ToLong(t)

\* C20: across the wraparound of the millisecond counter each timer of
\* loop() fires exactly when its period of true time has passed since its
\* reference point: the alternation at 3000 ms, the refresh at 1000 ms (its
\* reference then moves one period on, or to the current reading when it is
\* more than ten periods behind), the save at 60000 ms; none fires before its
\* period is over and none is skipped once it is, whether the reference lies
\* before the wraparound and the reading after it or not.
C20_TimersAcrossWrap ==
    [][ op' = "loop" =>
          LET now == SinceWrap(millis')
              sinceAlternate == now - SinceWrap(lastAlternateMillis)
              sinceUpdate == now - SinceWrap(lastUpdateMillis)
              sinceSave == now - SinceWrap(lastSaveMillis)
          IN  /\ now >= SinceWrap(millis)
              /\ sinceAlternate >= ALTERNATE_INTERVAL =>
                    showTotal' = ~showTotal /\ lastAlternateMillis' = millis'
              /\ sinceAlternate < ALTERNATE_INTERVAL =>
                    showTotal' = showTotal /\ lastAlternateMillis' = lastAlternateMillis
              /\ sinceUpdate >= UPDATE_INTERVAL =>
                    /\ redraws' >= 1
                    /\ SinceWrap(lastUpdateMillis') =
                          IF sinceUpdate - UPDATE_INTERVAL > 10 * UPDATE_INTERVAL
                          THEN now
                          ELSE SinceWrap(lastUpdateMillis) + UPDATE_INTERVAL
              /\ sinceUpdate < UPDATE_INTERVAL => lastUpdateMillis' = lastUpdateMillis
              /\ sinceSave >= SAVE_INTERVAL =>
                    /\ saved'
                    /\ lastSaveMillis' = millis'
                    /\ saveGapMs' = sinceSave
              /\ sinceSave < SAVE_INTERVAL =>
                    /\ ~saved'
                    /\ lastSaveMillis' = lastSaveMillis
                    /\ sinceSaveMs' = sinceSave
                    /\ eeprom' = eeprom ]_vars

\* C20 witness: a save whose reference point lies 50 s before the wraparound
\* fires 10.8 s after it, 60800 ms after the save before, in the fourth of
\* four 10.2 s iterations: the three before it, the third already past the
\* wraparound, did not save.
C20_Witness ==
    /\ op = "loop"
    /\ saved
    /\ nLoops = 4
    /\ millis = U32Of(10800)
    /\ lastSaveMillis = millis
    /\ saveGapMs = 60800
    /\ sessCommits = 71582

====
